---- MODULE Spec2Model ----
(***************************************************************************)
(* Model of local/bin/py/build/actions/format_link.py: the shortcode       *)
(* parser (parse_file), the per-node reference link rewriter               *)
(* (process_nodes), the reassembler (assemble_nodes), the entry point      *)
(* format_link_file and the command line driver main.                      *)
(*                                                                         *)
(* A line of a document is a sequence of tokens.  Its text is the tokens'  *)
(* renderings joined by one space, followed by a newline.  The regular     *)
(* expressions of the source are modelled by what they match on such       *)
(* lines.                                                                  *)
(***************************************************************************)
EXTENDS Integers, Sequences, FiniteSets, TLC

VARIABLES
    mode,      \* main: "file" (-f) or "dir" (-d); "call" when format_link_file is called directly
    fs,        \* the file system: file number -> content (a sequence of lines)
    orig,      \* the content every file had before main ran (never changes)
    written,   \* file number -> how many times main opened the file for writing
    queue,     \* main: what the iterator `files` still yields
    fi,        \* main: the file of the current loop iteration (0 before the loop)
    pc,        \* position of the program
    doc,       \* parse_file: the lines of the opened file
    pos,       \* parse_file: number of lines already read from the file
    nodes,     \* the Node objects, in order of creation; nodes[1] is the root
    cur,       \* parse_file: current_node
    nln,       \* parse_file: new_line_number
    todo,      \* process_nodes: the nodes whose call is pending, next first
    warned,    \* the nodes for which logger.warning reported missing footer links
    assigned,  \* the nodes whose modified_lines was assigned, in order of assignment
    buf,       \* assemble_nodes(root): output
    left,      \* assemble_nodes(root): number of children of the root not yet spliced
    out,       \* what format_link_file returned (contents_list before the join)
    err,       \* the exception that ended the run, "" when none
    run,       \* number of the current format_link_file call (1 or 2)
    first      \* the finished first call, kept to compare the second call with

vars == <<mode, fs, orig, written, queue, fi, pc, doc, pos, nodes, cur, nln,
          todo, warned, assigned, buf, left, out, err, run, first>>

(***************************************************************************)
(* Bounds of the model.                                                    *)
(***************************************************************************)
MaxLines == 3        \* longest document given to main
MaxFiles == 2        \* most files a directory holds
MaxCallLines == 3    \* longest document given to a direct call of format_link_file
MaxRootLines == 4    \* longest modified_lines of a hand-built root
MaxChildren == 2     \* most children of a hand-built root
MaxChildOut == 3     \* longest modified_lines of a hand-built child
MaxParseLines == 4   \* longest document given to a direct call of parse_file
MaxNodeLines == 4    \* most lines of links and text of a node given to process_nodes

(***************************************************************************)
(* Tokens and their text.                                                  *)
(***************************************************************************)
Text(s) == [k |-> "text", s |-> s, n |-> 0]
Open(name) == [k |-> "open", s |-> name, n |-> 0]
Close(name) == [k |-> "close", s |-> name, n |-> 0]
\* The close marker written "{{</ name >}}", as in TestParse.
CloseNoSpace(name) == [k |-> "closens", s |-> name, n |-> 0]
Inline(url) == [k |-> "inline", s |-> url, n |-> 0]
Ref(i) == [k |-> "ref", s |-> "", n |-> i]
Def(i, url) == [k |-> "def", s |-> url, n |-> i]

Render(tok) ==
    CASE tok.k = "text" -> tok.s
      [] tok.k = "open" -> "{{< " \o tok.s \o " >}}"
      [] tok.k = "close" -> "{{< /" \o tok.s \o " >}}"
      [] tok.k = "closens" -> "{{</ " \o tok.s \o " >}}"
      [] tok.k = "inline" -> "[t](" \o tok.s \o ")"
      [] tok.k = "ref" -> "[t][" \o ToString(tok.n) \o "]"
      [] tok.k = "def" -> "[" \o ToString(tok.n) \o "]: " \o tok.s

RECURSIVE OffsetOf(_, _)
\* Column (0-based) at which token i of the line starts.
OffsetOf(line, i) ==
    IF i <= 1 THEN 0 ELSE OffsetOf(line, i - 1) + Len(Render(line[i - 1])) + 1

\* Column just past token i of the line.
EndOf(line, i) == OffsetOf(line, i) + Len(Render(line[i]))

RECURSIVE LineFrom(_, _)
LineFrom(line, i) ==
    IF i > Len(line) THEN "\n"
    ELSE (IF i > 1 THEN " " ELSE "") \o Render(line[i]) \o LineFrom(line, i + 1)

\* The text of a line.
LineText(line) == LineFrom(line, 1)

RECURSIVE Join(_)
\* ''.join(lines)
Join(lines) == IF lines = <<>> THEN "" ELSE LineText(Head(lines)) \o Join(Tail(lines))

Min(S) == CHOOSE x \in S : \A y \in S : x <= y
Max(S) == CHOOSE x \in S : \A y \in S : y <= x

(***************************************************************************)
(* parse_file                                                              *)
(***************************************************************************)
one_liner_tags ==
    {"partial", "img", "region-param", "latest-lambda-layer-version", "X",
     "dashboards-widgets-api", "api-scopes", "vimeo", "integrations",
     "jqmath-vanilla", "translate", "get-service-checks-from-git",
     "get-metrics-from-git", "appsec-getstarted", "appsec-getstarted-2",
     "appsec-getstarted-2-canary", "sdk-version", "notifications-integrations",
     "notifications-email", "get-npm-integrations", "permissions",
     "aws-permissionsdbm-sqlserver-before-you-begin", "log-libraries-table",
     "serverless-libraries-table", "tracing-libraries-table",
     "classic-libraries-table", "dbm-sqlserver-agent-setup-kubernetes",
     "dbm-sqlserver-agent-setup-docker", "dbm-sqlserver-agent-setup-linux",
     "dbm-sqlserver-agent-setup-windows", "managed-locations"}

Positions(line, kinds) == {i \in 1..Len(line) : line[i].k \in kinds}

\* open_tag_regex: "{{< name", then the greedy (.*) up to the last " >}}" of
\* the line.  finditer yields at most one match on a line: it starts at the
\* first open marker and swallows every later marker.  0 when no match.
OpenMatch(line) ==
    IF Positions(line, {"open"}) = {} THEN 0 ELSE Min(Positions(line, {"open"}))

\* closed_tag_regex: "{{< /name", then the greedy (.*) up to the last ">}}" of
\* the line: at most one match, which starts at the first close marker.
\* Neither regex matches at "{{</ name >}}": both want white space after
\* "{{<".
CloseMatch(line) ==
    IF Positions(line, {"close"}) = {} THEN 0 ELSE Min(Positions(line, {"close"}))

\* match.end(0) of either regex: the end of the last marker of the line.
MatchEnd(line) == EndOf(line, Max(Positions(line, {"open", "close", "closens"})))

Node(name) ==
    [name |-> name, children |-> <<>>, parent |-> 0, lines |-> <<>>,
     modified_lines |-> <<>>, start_line |-> 0, end_line |-> 0,
     start |-> 0, end |-> 0]

\* One iteration of the loop over the lines of the file.
\* st = [nodes, cur, nln]; the result is the state after the iteration.
ParseLineStep(st, line) ==
    LET o == OpenMatch(line)
        \* current_node.push_line(line); current_node.start = match.start(0)
        n1 == [st.nodes EXCEPT ![st.cur].lines = Append(@, line),
                               ![st.cur].start =
                                   IF o # 0 THEN OffsetOf(line, o) ELSE @]
        create == o # 0 /\ line[o].s \notin one_liner_tags
        new == Len(n1) + 1
        \* new_node = Node(tag_name); current_node.add(new_node);
        \* current_node = new_node; push_line; start_line = new_line_number
        n2 == IF create
              THEN Append([n1 EXCEPT ![st.cur].children = Append(@, new)],
                          [Node(line[o].s) EXCEPT !.parent = st.cur,
                                                  !.lines = <<line>>,
                                                  !.start_line = st.nln])
              ELSE n1
        cur2 == IF create THEN new ELSE st.cur
        nln2 == IF create THEN 0 ELSE st.nln
        c == CloseMatch(line)
        \* current_node.end = match.end(0), for every match of the close regex
        n3 == IF c # 0 THEN [n2 EXCEPT ![cur2].end = MatchEnd(line)] ELSE n2
        closes == c # 0 /\ line[c].s = n3[cur2].name /\ n3[cur2].parent # 0
        is_same_line == nln2 = 0
        end_line == IF is_same_line THEN n3[cur2].start_line
                    ELSE n3[cur2].start_line + 1
        par == n3[cur2].parent
        n4 == IF closes
              THEN [n3 EXCEPT ![cur2].end_line = end_line,
                              ![par].lines =
                                  IF is_same_line THEN @ ELSE Append(@, line)]
              ELSE n3
    IN  [nodes |-> n4,
         cur |-> IF closes THEN par ELSE cur2,
         nln |-> (IF closes THEN end_line ELSE nln2) + 1]

(***************************************************************************)
(* process_nodes                                                           *)
(***************************************************************************)
ignored_nodes == {"code-block"}

\* Link targets that start with '#' or '?', which the lookahead (?![#?]) of
\* the inline link regex rejects.
AnchorTargets == {"#x", "?q"}

\* Characters that process_nodes strips from the content.  Of the eight the
\* source lists, the form feed is the one the model's documents contain.
ControlChars == {"\f"}

\* What \s of the regexes matches at the start of a line: the control
\* characters, which are white space all of them, and what is left when one
\* was deleted (the space that stood after it).
IsSpace(tok) == tok.k = "text" /\ tok.s \in ControlChars \cup {""}

\* Where r"^\s*\[(\d*?)\]: (\S*)" finds the footer definition of the line:
\* the position of a definition that only white space precedes, 0 if none.
DefAt(line) ==
    LET at == {i \in 1..Len(line) :
                  line[i].k = "def" /\ \A j \in 1..(i - 1) : IsSpace(line[j])}
    IN  IF at = {} THEN 0 ELSE CHOOSE i \in at : TRUE

\* match.group(1), match.group(2): the definition found on the line.
DefOf(line) == line[DefAt(line)]

\* r"^\s*\[(\d*?)\]: (\S*)": the line starts with a footer definition.
IsDefLine(line) == DefAt(line) # 0

DefLines(lines) == {i \in 1..Len(lines) : IsDefLine(lines[i])}

\* Variant of HasDuplicate: only a repeated definition with the same link counts.
HasDuplicateSameLink(lines) ==
    \E i, j \in DefLines(lines) :
        i < j /\ DefOf(lines[i]).n = DefOf(lines[j]).n /\ DefOf(lines[i]).s = DefOf(lines[j]).s

\* ref_num in ref_nums: a second definition of an index already seen.
HasDuplicate(lines) ==
    \E i, j \in DefLines(lines) : i < j /\ DefOf(lines[i]).n = DefOf(lines[j]).n

\* all_references: index -> link, of the footer definitions of the node.
AllReferences(lines) ==
    [i \in {DefOf(lines[j]).n : j \in DefLines(lines)} |->
        DefOf(lines[CHOOSE j \in DefLines(lines) : DefOf(lines[j]).n = i]).s]

\* re.search(r"\[.*?\]\[(?![#?])(\S*?)\]", content): some "[t][i]" in the node.
HasReferenceLink(lines) ==
    \E i \in 1..Len(lines) : \E j \in 1..Len(lines[i]) : lines[i][j].k = "ref"

RECURSIVE FooterScan(_, _, _, _)
\* The loop that looks for the footer lines: <<start_line, end_line>> after
\* the lines from index ln (0-based) on have been visited.
FooterScan(lines, ln, start_line, end_line) ==
    IF ln >= Len(lines) THEN <<start_line, end_line>>
    ELSE IF IsDefLine(lines[ln + 1])
         THEN IF start_line # 0
              THEN FooterScan(lines, ln + 1, start_line, ln + 1)
              ELSE FooterScan(lines, ln + 1, ln, end_line)
         ELSE FooterScan(lines, ln + 1, start_line, end_line)

MapTokens(lines, F(_)) ==
    [i \in 1..Len(lines) |-> [j \in 1..Len(lines[i]) |-> F(lines[i][j])]]

\* content.replace('][i]', '](link)') for every footer definition.
InlineExisting(lines, all_references) ==
    LET F(tok) == IF tok.k = "ref" /\ tok.n \in DOMAIN all_references
                  THEN Inline(all_references[tok.n]) ELSE tok
    IN  MapTokens(lines, F)

\* all_references_flipped: link -> the lowest index defined with that link.
Flipped(all_references) ==
    [u \in {all_references[i] : i \in DOMAIN all_references} |->
        Min({i \in DOMAIN all_references : all_references[i] = u})]

\* The links of the inline links that r"\[.*?\]\((?![#?])(\S*?)\)" finds.
InlineLinks(lines) ==
    UNION {{lines[i][j].s : j \in {h \in 1..Len(lines[i]) :
                                      /\ lines[i][h].k = "inline"
                                      /\ lines[i][h].s \notin AnchorTargets}} :
           i \in 1..Len(lines)}

\* refs: the old index (when the link has one that is not 0) of every inline
\* link found.
ReusedIndices(lines, flipped) ==
    {flipped[u] : u \in {v \in InlineLinks(lines) : v \in DOMAIN flipped /\ flipped[v] # 0}}

RECURSIVE SortedSeq(_)
SortedSeq(S) == IF S = {} THEN <<>> ELSE <<Min(S)>> \o SortedSeq(S \ {Min(S)})

RECURSIVE SortedDescending(_)
SortedDescending(S) == IF S = {} THEN <<>> ELSE <<Max(S)>> \o SortedDescending(S \ {Max(S)})

\* Variant of Renumber: the reused indices are taken in descending order.
RenumberDescending(reused, all_references) ==
    LET keys == SortedDescending(reused)
    IN  [i \in 1..Len(keys) |-> all_references[keys[i]]]

\* inline_refs after the groupby loop: the k-th smallest reused index becomes
\* k; the result is the sequence of links, new index = position.
Renumber(reused, all_references) ==
    LET keys == SortedSeq(reused)
    IN  [i \in 1..Len(keys) |-> all_references[keys[i]]]

\* content.replace('](link)', '][i]') for every entry of inline_refs.
Relink(lines, inline_refs) ==
    LET F(tok) == IF tok.k = "inline" /\ \E i \in 1..Len(inline_refs) : inline_refs[i] = tok.s
                  THEN Ref(CHOOSE i \in 1..Len(inline_refs) : inline_refs[i] = tok.s)
                  ELSE tok
    IN  MapTokens(lines, F)

\* cleaned_content: the control characters are deleted.
Clean(lines) ==
    LET F(tok) == IF tok.k = "text" /\ tok.s \in ControlChars
                  THEN Text("") ELSE tok
    IN  MapTokens(lines, F)

\* Python's  seq[a:b] = repl  for indices a, b >= 0.
SliceAssign(seq, a, b, repl) ==
    LET lo == IF a < Len(seq) THEN a ELSE Len(seq)
        hi0 == IF b < Len(seq) THEN b ELSE Len(seq)
        hi == IF hi0 < lo THEN lo ELSE hi0
    IN  SubSeq(seq, 1, lo) \o repl \o SubSeq(seq, hi + 1, Len(seq))

\* [f"[{i}]: {link}\n" for i, link in inline_refs.items()]
FooterBlock(inline_refs) == [i \in 1..Len(inline_refs) |-> <<Def(i, inline_refs[i])>>]

\* The rewrite of a node that is not ignored and has no duplicate footer
\* index, given the footer definitions collected for it: modified_lines.
RewriteLines(node, all_references) ==
    LET scan == FooterScan(node.lines, 0, 0, 0)
        inlined == InlineExisting(node.lines, all_references)
        reused == ReusedIndices(inlined, Flipped(all_references))
        inline_refs == Renumber(reused, all_references)
        split == Clean(Relink(inlined, inline_refs))
        start_line == IF scan[1] # 0 THEN scan[1]
                      ELSE IF node.parent # 0 THEN Len(split) - 1 ELSE Len(split)
        end_line0 == IF scan[1] # 0 THEN scan[2] ELSE start_line
        end_line == IF end_line0 = 0 THEN start_line + 1 ELSE end_line0
    IN  SliceAssign(split, start_line, end_line, FooterBlock(inline_refs))

\* Variant of ProcessOne: a node below the root also resolves its references
\* against the footer definitions of the root.
ProcessOneRootRefs(node) ==
    IF node.name \in ignored_nodes
    THEN [fatal |-> FALSE, warn |-> FALSE, modified_lines |-> node.lines]
    ELSE IF HasDuplicate(node.lines)
    THEN [fatal |-> TRUE, warn |-> FALSE, modified_lines |-> node.modified_lines]
    ELSE LET seen == IF node.parent # 0 THEN nodes[1].lines \o node.lines ELSE node.lines
         IN  [fatal |-> FALSE,
              warn |-> DOMAIN AllReferences(seen) = {} /\ HasReferenceLink(node.lines),
              modified_lines |-> RewriteLines(node, AllReferences(seen))]

\* The body of process_nodes for one node, without the calls for the children:
\* whether it raises SystemExit, whether it logs the warning, modified_lines.
ProcessOne(node) ==
    IF node.name \in ignored_nodes
    THEN [fatal |-> FALSE, warn |-> FALSE, modified_lines |-> node.lines]
    ELSE IF HasDuplicate(node.lines)
    THEN [fatal |-> TRUE, warn |-> FALSE, modified_lines |-> node.modified_lines]
    ELSE [fatal |-> FALSE,
          warn |-> DOMAIN AllReferences(node.lines) = {} /\ HasReferenceLink(node.lines),
          modified_lines |-> RewriteLines(node, AllReferences(node.lines))]

(***************************************************************************)
(* assemble_nodes                                                          *)
(***************************************************************************)
\* Variant of SpliceChild without the single line case.
SpliceChildAlwaysSlice(output, child, child_output) ==
    [e |-> "", v |-> SliceAssign(output, child.start_line, child.end_line + 1, child_output)]

\* One iteration of the loop over reversed(node.children), after
\* child_output has been computed.  e names the exception raised, "" if none.
SpliceChild(output, child, child_output) ==
    IF child.start_line = child.end_line
    THEN \* single line shortcode
         IF child.start_line >= Len(output)
         THEN [e |-> "IndexError", v |-> output]      \* line = output[child.start_line]
         ELSE IF child_output # <<>>
         THEN [e |-> "TypeError", v |-> output]       \* str + list
         ELSE [e |-> "", v |-> output]                \* output[child.start_line] = line
    ELSE \* multi line shortcode
         [e |-> "", v |-> SliceAssign(output, child.start_line, child.end_line + 1, child_output)]

RECURSIVE AssembleNodes(_, _), AssembleFrom(_, _, _, _)
\* The loop of assemble_nodes(ns[n]) with j children still to splice.
AssembleFrom(ns, n, output, j) ==
    IF j = 0 THEN [e |-> "", v |-> output]
    ELSE LET c == ns[n].children[j]
             child_output == AssembleNodes(ns, c)
         IN  IF child_output.e # "" THEN [e |-> child_output.e, v |-> output]
             ELSE LET r == SpliceChild(output, ns[c], child_output.v)
                  IN  IF r.e # "" THEN r ELSE AssembleFrom(ns, n, r.v, j - 1)

\* assemble_nodes(ns[n])
AssembleNodes(ns, n) == AssembleFrom(ns, n, ns[n].modified_lines, Len(ns[n].children))

(***************************************************************************)
(* The documents of the model.                                             *)
(***************************************************************************)
Lines ==
    {<<Text("x")>>,
     <<Text("x"), Text("\f")>>,
     <<Open("tab")>>,
     <<Close("tab")>>,
     <<Open("tabs")>>,
     <<Close("tab"), Close("tabs")>>,
     <<Open("code-block")>>,
     <<Open("partial")>>,
     <<Text("x"), Open("tab"), Text("y"), Close("tab"), Text("z")>>,
     <<Def(1, "http://a"), Open("tab"), Ref(1), Close("tab")>>,
     <<Ref(1)>>,
     <<Ref(1), Inline("http://b")>>,
     <<Def(1, "http://a")>>,
     <<Def(1, "http://b")>>,
     <<Def(2, "http://b")>>,
     <<Text("\f"), Def(1, "http://a")>>}

SeqsUpTo(S, n) == UNION {[1..m -> S] : m \in 0..n}

Docs == SeqsUpTo(Lines, MaxLines)

\* The files of a directory: short documents, one of them rejected by
\* process_nodes and one by parse_file.
DirDocs == {<<>>, <<<<Text("x")>>>>, <<<<Def(1, "http://a")>>, <<Def(1, "http://b")>>>>}

NoCall ==
    [again |-> "", doc |-> <<>>, nodes |-> <<>>, assigned |-> <<>>, out |-> <<>>,
     err |-> "", pc |-> "", warned |-> {}]

(***************************************************************************)
(* format_link_file: parse_file, process_nodes, assemble_nodes, join       *)
(***************************************************************************)
\* format_link_file(filepath) is entered; parse_file opens the file.
Enter(d) ==
    /\ pc' = "parse"
    /\ doc' = d
    /\ pos' = 0
    /\ nodes' = <<Node("root")>>
    /\ cur' = 1
    /\ nln' = 0
    /\ todo' = <<>>
    /\ warned' = {}
    /\ assigned' = <<>>
    /\ buf' = <<>>
    /\ left' = 0
    /\ out' = <<>>
    /\ err' = ""

\* Variant of ParseLine: a node closed on the line that opened it has this
\* line pushed to its parent a second time.
ParseLinePushAgain ==
    /\ pc = "parse"
    /\ pos < Len(doc)
    /\ LET st == ParseLineStep([nodes |-> nodes, cur |-> cur, nln |-> nln], doc[pos + 1])
           same_line == Len(st.nodes) > Len(nodes) /\ st.cur = cur
       IN  /\ nodes' = IF same_line
                       THEN [st.nodes EXCEPT ![cur].lines = Append(@, doc[pos + 1])]
                       ELSE st.nodes
           /\ cur' = st.cur
           /\ nln' = st.nln
    /\ pos' = pos + 1
    /\ UNCHANGED <<mode, fs, orig, written, queue, fi, pc, doc, todo, warned, assigned,
                   buf, left, out, err, run, first>>

\* Variant of ParseEnd without the test of root.lines.
ParseEndNoCheck ==
    /\ pc = "parse"
    /\ pos = Len(doc)
    /\ pc' = "process"
    /\ todo' = <<1>>
    /\ UNCHANGED <<mode, fs, orig, written, queue, fi, doc, pos, nodes, cur,
                   nln, warned, assigned, buf, left, out, err, run, first>>

\* parse_file: one iteration of the loop over the lines.
ParseLine ==
    /\ pc = "parse"
    /\ pos < Len(doc)
    /\ LET st == ParseLineStep([nodes |-> nodes, cur |-> cur, nln |-> nln], doc[pos + 1])
       IN  /\ nodes' = st.nodes
           /\ cur' = st.cur
           /\ nln' = st.nln
    /\ pos' = pos + 1
    /\ UNCHANGED <<mode, fs, orig, written, queue, fi, pc, doc, todo, warned, assigned,
                   buf, left, out, err, run, first>>

\* parse_file: the file is exhausted; ValueError when the root has no line,
\* else the root is returned and process_nodes(root) is called.
ParseEnd ==
    /\ pc = "parse"
    /\ pos = Len(doc)
    /\ IF nodes[1].lines = <<>>
       THEN /\ pc' = "raised"
            /\ err' = "ValueError"
            /\ todo' = todo
       ELSE /\ pc' = "process"
            /\ err' = err
            /\ todo' = <<1>>
    /\ UNCHANGED <<mode, fs, orig, written, queue, fi, doc, pos, nodes, cur,
                   nln, warned, assigned, buf, left, out, run, first>>

\* Variant of ProcessNode: the walk does not enter the children of an
\* ignored node.
ProcessNodeSkipIgnored ==
    /\ pc = "process"
    /\ todo # <<>>
    /\ LET n == Head(todo)
           r == ProcessOne(nodes[n])
       IN  IF r.fatal
           THEN /\ pc' = "raised"
                /\ err' = "SystemExit"
                /\ UNCHANGED <<nodes, todo, warned, assigned>>
           ELSE /\ nodes' = [nodes EXCEPT ![n].modified_lines = r.modified_lines]
                /\ todo' = (IF nodes[n].name \in ignored_nodes THEN <<>>
                            ELSE nodes[n].children) \o Tail(todo)
                /\ warned' = IF r.warn THEN warned \cup {n} ELSE warned
                /\ assigned' = Append(assigned, n)
                /\ UNCHANGED <<pc, err>>
    /\ UNCHANGED <<mode, fs, orig, written, queue, fi, doc, pos, cur, nln,
                   buf, left, out, run, first>>

\* process_nodes(node) for the next node of the walk: its own body, then its
\* children are next in line, before the nodes that were already pending.
ProcessNode ==
    /\ pc = "process"
    /\ todo # <<>>
    /\ LET n == Head(todo)
           r == ProcessOne(nodes[n])
       IN  IF r.fatal
           THEN /\ pc' = "raised"
                /\ err' = "SystemExit"
                /\ UNCHANGED <<nodes, todo, warned, assigned>>
           ELSE /\ nodes' = [nodes EXCEPT ![n].modified_lines = r.modified_lines]
                /\ todo' = nodes[n].children \o Tail(todo)
                /\ warned' = IF r.warn THEN warned \cup {n} ELSE warned
                /\ assigned' = Append(assigned, n)
                /\ UNCHANGED <<pc, err>>
    /\ UNCHANGED <<mode, fs, orig, written, queue, fi, doc, pos, cur, nln,
                   buf, left, out, run, first>>

\* process_nodes has returned; assemble_nodes(root) starts:
\* output = [] + node.modified_lines
AssembleStart ==
    /\ pc = "process"
    /\ todo = <<>>
    /\ pc' = "assemble"
    /\ buf' = nodes[1].modified_lines
    /\ left' = Len(nodes[1].children)
    /\ UNCHANGED <<mode, fs, orig, written, queue, fi, doc, pos, nodes, cur,
                   nln, todo, warned, assigned, out, err, run, first>>

\* Variant of AssembleChild that visits the children in forward order.
AssembleChildForward ==
    /\ pc = "assemble"
    /\ left > 0
    /\ LET c == nodes[1].children[Len(nodes[1].children) - left + 1]
           child_output == AssembleNodes(nodes, c)
           r == IF child_output.e # "" THEN [e |-> child_output.e, v |-> buf]
                ELSE SpliceChild(buf, nodes[c], child_output.v)
       IN  IF r.e # ""
           THEN /\ pc' = "raised"
                /\ err' = r.e
                /\ UNCHANGED <<buf, left>>
           ELSE /\ buf' = r.v
                /\ left' = left - 1
                /\ UNCHANGED <<pc, err>>
    /\ UNCHANGED <<mode, fs, orig, written, queue, fi, doc, pos, nodes, cur,
                   nln, todo, warned, assigned, out, run, first>>

\* assemble_nodes(root): one iteration of the loop over reversed(children).
AssembleChild ==
    /\ pc = "assemble"
    /\ left > 0
    /\ LET c == nodes[1].children[left]
           child_output == AssembleNodes(nodes, c)
           r == IF child_output.e # "" THEN [e |-> child_output.e, v |-> buf]
                ELSE SpliceChild(buf, nodes[c], child_output.v)
       IN  IF r.e # ""
           THEN /\ pc' = "raised"
                /\ err' = r.e
                /\ UNCHANGED <<buf, left>>
           ELSE /\ buf' = r.v
                /\ left' = left - 1
                /\ UNCHANGED <<pc, err>>
    /\ UNCHANGED <<mode, fs, orig, written, queue, fi, doc, pos, nodes, cur,
                   nln, todo, warned, assigned, out, run, first>>

\* assemble_nodes(root) returns output; format_link_file joins and returns it.
AssembleEnd ==
    /\ pc = "assemble"
    /\ left = 0
    /\ pc' = "returned"
    /\ out' = buf
    /\ UNCHANGED <<mode, fs, orig, written, queue, fi, doc, pos, nodes, cur,
                   nln, todo, warned, assigned, buf, left, err, run, first>>

(***************************************************************************)
(* main                                                                    *)
(***************************************************************************)
\* init_args, files = ..., list(files).  With -f, files is a list of one path.
\* With -d, files is the iterator glob.iglob returns, and list(files) takes
\* every path out of it: the loop that follows finds it exhausted.
MainStart ==
    /\ pc = "main"
    /\ pc' = "loop"
    /\ queue' = IF mode = "file" THEN <<1>> ELSE <<>>
    /\ UNCHANGED <<mode, fs, orig, written, fi, doc, pos, nodes, cur, nln,
                   todo, warned, assigned, buf, left, out, err, run, first>>

\* Variant of NextFile that opens the file for writing before the call.
NextFileOpenFirst ==
    /\ pc = "loop"
    /\ queue # <<>>
    /\ fi' = Head(queue)
    /\ queue' = Tail(queue)
    /\ Enter(fs[Head(queue)])
    /\ run' = run + 1
    /\ fs' = [fs EXCEPT ![Head(queue)] = <<>>]
    /\ written' = [written EXCEPT ![Head(queue)] = @ + 1]
    /\ UNCHANGED <<mode, orig, first>>

\* for filepath in files: format_link_file(filepath) is called.
NextFile ==
    /\ pc = "loop"
    /\ queue # <<>>
    /\ fi' = Head(queue)
    /\ queue' = Tail(queue)
    /\ Enter(fs[Head(queue)])
    /\ run' = run + 1
    /\ UNCHANGED <<mode, fs, orig, written, first>>

\* with open(filepath, 'w') as final_file: final_file.write(final_text)
WriteFile ==
    /\ pc = "returned"
    /\ mode # "call"
    /\ fs' = [fs EXCEPT ![fi] = out]
    /\ written' = [written EXCEPT ![fi] = @ + 1]
    /\ pc' = "loop"
    /\ UNCHANGED <<mode, orig, queue, fi, doc, pos, nodes, cur, nln, todo,
                   warned, assigned, buf, left, out, err, run, first>>

\* The loop is over: main returns.
MainExit ==
    /\ pc = "loop"
    /\ queue = <<>>
    /\ pc' = "exit"
    /\ UNCHANGED <<mode, fs, orig, written, queue, fi, doc, pos, nodes, cur,
                   nln, todo, warned, assigned, buf, left, out, err, run, first>>

Init ==
    /\ mode \in {"file", "dir"}
    /\ fs \in IF mode = "file" THEN {<<d>> : d \in Docs} ELSE SeqsUpTo(DirDocs, MaxFiles)
    /\ orig = fs
    /\ written = [i \in DOMAIN fs |-> 0]
    /\ queue = <<>>
    /\ fi = 0
    /\ pc = "main"
    /\ doc = <<>>
    /\ pos = 0
    /\ nodes = <<>>
    /\ cur = 0
    /\ nln = 0
    /\ todo = <<>>
    /\ warned = {}
    /\ assigned = <<>>
    /\ buf = <<>>
    /\ left = 0
    /\ out = <<>>
    /\ err = ""
    /\ run = 0
    /\ first = NoCall

Next ==
    \/ MainStart
    \/ NextFile
    \/ ParseLine
    \/ ParseEnd
    \/ ProcessNode
    \/ AssembleStart
    \/ AssembleChild
    \/ AssembleEnd
    \/ WriteFile
    \/ MainExit

Spec == Init /\ [][Next]_vars

(***************************************************************************)
(* format_link_file called directly ("kept for legacy usage in other       *)
(* scripts"), twice in a row: the second call reads either what the first  *)
(* call returned, or the first document with one line replaced.            *)
(***************************************************************************)
CallLines ==
    {<<Open("tab")>>,
     <<Close("tab")>>,
     <<Open("tab"), Ref(1)>>,
     <<Def(1, "http://a"), Open("tab"), Close("tab")>>,
     <<Def(1, "http://a")>>,
     <<Text("\f"), Def(1, "http://a")>>,
     <<Ref(1)>>}

CallDocs == SeqsUpTo(CallLines, MaxCallLines)

Finished(kind) ==
    [again |-> kind, doc |-> doc, nodes |-> nodes, assigned |-> assigned,
     out |-> out, err |-> err, pc |-> pc, warned |-> warned]

\* The caller stores the returned text and calls format_link_file on it.
CallAgainOnOutput ==
    /\ mode = "call"
    /\ run = 1
    /\ pc = "returned"
    /\ first' = Finished("output")
    /\ run' = 2
    /\ fs' = [fs EXCEPT ![fi] = out]
    /\ Enter(out)
    /\ UNCHANGED <<mode, orig, written, queue, fi>>

\* The caller calls format_link_file on the first document with one line
\* replaced by another.
CallAgainOnVariant ==
    /\ mode = "call"
    /\ run = 1
    /\ pc \in {"returned", "raised"}
    /\ \E p \in 1..Len(doc), l \in CallLines :
           /\ fs' = [fs EXCEPT ![fi] = [doc EXCEPT ![p] = l]]
           /\ Enter([doc EXCEPT ![p] = l])
    /\ first' = Finished("variant")
    /\ run' = 2
    /\ UNCHANGED <<mode, orig, written, queue, fi>>

InitCalls ==
    /\ mode = "call"
    /\ fs \in {<<d>> : d \in CallDocs}
    /\ orig = fs
    /\ written = <<0>>
    /\ queue = <<>>
    /\ fi = 1
    /\ pc = "parse"
    /\ doc = fs[1]
    /\ pos = 0
    /\ nodes = <<Node("root")>>
    /\ cur = 1
    /\ nln = 0
    /\ todo = <<>>
    /\ warned = {}
    /\ assigned = <<>>
    /\ buf = <<>>
    /\ left = 0
    /\ out = <<>>
    /\ err = ""
    /\ run = 1
    /\ first = NoCall

NextCalls ==
    \/ ParseLine
    \/ ParseEnd
    \/ ProcessNode
    \/ AssembleStart
    \/ AssembleChild
    \/ AssembleEnd
    \/ CallAgainOnOutput
    \/ CallAgainOnVariant

SpecCalls == InitCalls /\ [][NextCalls]_vars

(***************************************************************************)
(* assemble_nodes on hand-built trees, as in TestAssembleNodes: a root     *)
(* with its modified_lines and children placed at line ranges of it.       *)
(***************************************************************************)
RootLines(len) == [i \in 1..len |-> <<Text("r" \o ToString(i))>>]

ChildOut(j, len) == [i \in 1..len |-> <<Text("c" \o ToString(j) \o "." \o ToString(i))>>]

\* n line ranges <<start_line, end_line>> of a root of len lines, in
\* ascending order, no two sharing a line.
Placements(len, n) ==
    {r \in [1..n -> {se \in (0..(len - 1)) \X (0..(len - 1)) : se[1] <= se[2]}] :
        \A i \in 1..(n - 1) : r[i][2] < r[i + 1][1]}

HandBuilt(len, r, m) ==
    <<[Node("root") EXCEPT !.lines = RootLines(len),
                           !.modified_lines = RootLines(len),
                           !.children = [j \in 1..Len(r) |-> j + 1]]>>
    \o [j \in 1..Len(r) |->
           [Node("tab") EXCEPT !.parent = 1,
                               !.start_line = r[j][1],
                               !.end_line = r[j][2],
                               !.lines = ChildOut(j, 1),
                               !.modified_lines = ChildOut(j, m[j])]]

HandBuiltTrees ==
    UNION {UNION {{HandBuilt(len, r, m) : m \in [1..n -> 0..MaxChildOut]} :
                  r \in Placements(len, n)} :
           <<len, n>> \in (1..MaxRootLines) \X (0..MaxChildren)}

InitAssemble ==
    /\ mode = "tree"
    /\ fs = <<>>
    /\ orig = fs
    /\ written = <<>>
    /\ queue = <<>>
    /\ fi = 0
    /\ pc = "process"
    /\ doc = <<>>
    /\ pos = 0
    /\ nodes \in HandBuiltTrees
    /\ cur = 1
    /\ nln = 0
    /\ todo = <<>>
    /\ warned = {}
    /\ assigned = [i \in 1..Len(nodes) |-> i]
    /\ buf = <<>>
    /\ left = 0
    /\ out = <<>>
    /\ err = ""
    /\ run = 1
    /\ first = NoCall

NextAssemble ==
    \/ AssembleStart
    \/ AssembleChild
    \/ AssembleEnd

SpecAssemble == InitAssemble /\ [][NextAssemble]_vars

(***************************************************************************)
(* Properties.                                                             *)
(***************************************************************************)
Range(f) == {f[i] : i \in DOMAIN f}

Tokens(lines) == UNION {Range(lines[i]) : i \in 1..Len(lines)}

\* The call of format_link_file has ended: it returned or it raised.
Ended == pc \in {"returned", "raised"}

\* Plain text and shortcode markers only: no link, no footer definition, and
\* none of the control characters that process_nodes deletes.
PlainDocument(d) ==
    \A tok \in Tokens(d) :
        /\ tok.k \in {"text", "open", "close"}
        /\ tok.k = "text" => tok.s \notin ControlChars

RECURSIVE Flatten(_, _)
\* The tokens of the lines from line i on, in the order of the text.
Flatten(d, i) == IF i > Len(d) THEN <<>> ELSE d[i] \o Flatten(d, i + 1)

RECURSIVE Nested(_, _, _)
\* From token i on, with the regions of `stack` open, every close marker
\* closes the region opened last and no region is left open at the end. The
\* tags that have no close marker open no region.
Nested(toks, i, stack) ==
    IF i > Len(toks) THEN stack = <<>>
    ELSE IF toks[i].k = "open" /\ toks[i].s \notin one_liner_tags
    THEN Nested(toks, i + 1, <<toks[i].s>> \o stack)
    ELSE IF toks[i].k = "close"
    THEN /\ stack # <<>>
         /\ stack[1] = toks[i].s
         /\ Nested(toks, i + 1, Tail(stack))
    ELSE Nested(toks, i + 1, stack)

\* C1: a document without footer definitions and links, whatever regions it
\* opens and closes, each one closed where it should be, comes back from
\* format_link_file as the same string.
C1_RoundTripNoLinks ==
    (mode = "file" /\ Ended /\ doc # <<>> /\ PlainDocument(doc) /\ Nested(Flatten(doc, 1), 1, <<>>))
        => (pc = "returned" /\ Join(out) = Join(doc))

\* The inline links of the lines whose target is a literal URL.
LiteralInline(lines) ==
    {tok \in Tokens(lines) : tok.k = "inline" /\ tok.s \notin AnchorTargets}

FooterLinks(lines) == {DefOf(lines[i]).s : i \in DefLines(lines)}

BasicScope == <<<<Ref(1), Inline("http://b")>>, <<Def(1, "http://a")>>>>

\* C2: after process_nodes, a scope that is not ignored has no inline link
\* with a literal URL left, the footer block lists the URL of every such
\* link, and the scope "[t][1] [t](http://b)", "[1]: http://a" becomes
\* "[t][1] [t][2]", "[1]: http://a", "[2]: http://b".
C2_BasicRewrite ==
    \A n \in Range(assigned) :
        nodes[n].name \notin ignored_nodes =>
            /\ LiteralInline(nodes[n].modified_lines) = {}
            /\ \A tok \in LiteralInline(nodes[n].lines) :
                   tok.s \in FooterLinks(nodes[n].modified_lines)
            /\ nodes[n].lines = BasicScope =>
                   nodes[n].modified_lines =
                       <<<<Ref(1), Ref(2)>>, <<Def(1, "http://a")>>, <<Def(2, "http://b")>>>>

\* C3: when format_link_file returned a text, format_link_file on that text
\* returns too, and returns the same text.
C3_Idempotent ==
    (run = 2 /\ first.again = "output" /\ Ended)
        => (pc = "returned" /\ Join(out) = Join(first.out))

RootChildren == IF nodes = <<>> THEN <<>> ELSE nodes[1].children

\* Child c of the root was opened and closed on one line of the root: it holds
\* that one line, which carries its open marker and, later, its close marker.
ClosedInline(c) ==
    /\ nodes[c].start_line = nodes[c].end_line
    /\ Len(nodes[c].lines) = 1
    /\ \E i, j \in 1..Len(nodes[c].lines[1]) :
           /\ i < j
           /\ nodes[c].lines[1][i] = Open(nodes[c].name)
           /\ nodes[c].lines[1][j] = Close(nodes[c].name)

OpenAt(c) == Min({i \in 1..Len(nodes[c].lines[1]) : nodes[c].lines[1][i] = Open(nodes[c].name)})

CloseAt(c) == Min({j \in 1..Len(nodes[c].lines[1]) :
                     j > OpenAt(c) /\ nodes[c].lines[1][j] = Close(nodes[c].name)})

RECURSIVE Chars(_, _, _)
\* The text of tokens i..j of the line, each followed by a space.
Chars(line, i, j) ==
    IF i > j THEN "" ELSE Render(line[i]) \o " " \o Chars(line, i + 1, j)

\* C4: a child opened and closed on one line of the root records the columns
\* of its own markers, and splicing its (non-empty) output raises nothing and
\* leaves in that line: the text before the open marker, the child's output
\* as one string, the text after the close marker.
C4_InlineSplice ==
    \A ci \in 1..Len(RootChildren) :
        LET c == nodes[1].children[ci]
            line == nodes[1].modified_lines[nodes[c].start_line + 1]
        IN  (/\ mode = "file"
             /\ pc \in {"assemble", "returned", "raised"}
             /\ todo = <<>> /\ assigned # <<>>
             /\ (left < ci \/ (pc = "raised" /\ left = ci))
             /\ ClosedInline(c)
             /\ nodes[c].start_line < Len(nodes[1].modified_lines)
             /\ AssembleNodes(nodes, c).e = ""
             /\ AssembleNodes(nodes, c).v # <<>>)
            => /\ pc # "raised"
               /\ nodes[c].start = OffsetOf(nodes[c].lines[1], OpenAt(c))
               /\ nodes[c].end = EndOf(nodes[c].lines[1], CloseAt(c))
               /\ LineText(buf[nodes[c].start_line + 1]) =
                      Chars(line, 1, OpenAt(c) - 1)
                      \o Join(AssembleNodes(nodes, c).v)
                      \o LineFrom(line, CloseAt(c) + 1)

\* Two footer definitions of the lines carry the same index.
SameIndexTwice(lines) ==
    \E i, j \in 1..Len(lines) :
        /\ i # j
        /\ lines[i] # <<>> /\ lines[j] # <<>>
        /\ IsDefLine(lines[i]) /\ IsDefLine(lines[j])
        /\ DefOf(lines[i]).n = DefOf(lines[j]).n

DuplicateScopes ==
    {n \in 1..Len(nodes) : nodes[n].name \notin ignored_nodes /\ SameIndexTwice(nodes[n].lines)}

\* C5: once the parsed document has a scope, not ignored, with two footer
\* definitions of one index, process_nodes never completes: the run ends with
\* SystemExit or not at all, no text is returned and no file is written.
C5_DuplicateIndexIsFatal ==
    (mode \in {"file", "dir"} /\ pc # "parse" /\ run > 0 /\ DuplicateScopes # {})
        => /\ pc \in {"process", "raised"}
           /\ pc = "raised" => err = "SystemExit"
           /\ out = <<>>
           /\ fs = orig
           /\ \A f \in DOMAIN written : written[f] = 0

\* A scope below the root holds the two definitions, and the run was ended.
C5_Witness ==
    /\ pc = "raised"
    /\ err = "SystemExit"
    /\ \E n \in DuplicateScopes : nodes[n].parent # 0 /\ ~SameIndexTwice(nodes[1].lines)

\* The scope uses "[t][i]" for an index i that no footer definition of its
\* own lines defines.
HasOrphanReference(lines) ==
    \E tok \in Tokens(lines) :
        tok.k = "ref" /\ tok.n \notin {DefOf(lines[i]).n : i \in DefLines(lines)}

\* C6: process_nodes logs the warning for every scope, not ignored, that has
\* an orphan reference, whether or not the scope defines other indices, and
\* assigns its modified_lines all the same.
C6_OrphanWarning ==
    \A n \in Range(assigned) :
        (nodes[n].name \notin ignored_nodes /\ HasOrphanReference(nodes[n].lines))
            => n \in warned

SameScope(a, b) ==
    /\ a.name = b.name
    /\ a.lines = b.lines
    /\ (a.parent = 0) = (b.parent = 0)

\* C7: what process_nodes assigns to a node depends on the node alone: a node
\* of the second call that has the name, the lines and the place (root or
\* not) of a node of the first call gets the same modified_lines, whatever
\* was changed in the other nodes.
C7_ScopeIsolation ==
    (run = 2 /\ first.again = "variant")
        => \A i \in Range(first.assigned), j \in Range(assigned) :
               SameScope(first.nodes[i], nodes[j])
                   => first.nodes[i].modified_lines = nodes[j].modified_lines

\* A node below the root reads "[t][1]" on the same lines in both calls and
\* keeps lines of its own; in the first call another node defines index 1,
\* in the second call no node does.
C7_Witness ==
    /\ run = 2
    /\ first.again = "variant"
    /\ pc = "returned"
    /\ \E i \in Range(first.assigned), j \in Range(assigned) :
           /\ SameScope(first.nodes[i], nodes[j])
           /\ nodes[j].parent # 0
           /\ Ref(1) \in Tokens(nodes[j].lines)
           /\ DefLines(nodes[j].lines) = {}
           /\ nodes[j].modified_lines # <<>>
           /\ \E h \in 1..Len(first.nodes) : h # i /\ DefLines(first.nodes[h].lines) # {}
           /\ \A h \in 1..Len(nodes) : DefLines(nodes[h].lines) = {}

RECURSIVE ExpectedFrom(_, _)
\* The root's lines from line `from` (0-based) on, with the lines
\* start_line..end_line of the children j, j+1, ... replaced by what these
\* children hold.
ExpectedFrom(j, from) ==
    IF j > Len(nodes[1].children)
    THEN SubSeq(nodes[1].modified_lines, from + 1, Len(nodes[1].modified_lines))
    ELSE LET c == nodes[nodes[1].children[j]]
         IN  SubSeq(nodes[1].modified_lines, from + 1, c.start_line)
             \o c.modified_lines
             \o ExpectedFrom(j + 1, c.end_line + 1)

MultiLineChildren ==
    \A j \in 1..Len(RootChildren) :
        nodes[RootChildren[j]].start_line < nodes[RootChildren[j]].end_line

\* C8: for a root whose children span several lines each, at ranges that do
\* not overlap, assemble_nodes returns the root's own lines in their order
\* with each range start_line..end_line replaced by that child's lines,
\* however many lines each child holds.
C8_PositionSplice ==
    (mode = "tree" /\ pc = "returned" /\ MultiLineChildren)
        => out = ExpectedFrom(1, 0)

\* Two children were spliced, one holding fewer lines than its range and the
\* other more.
C8_Witness ==
    /\ mode = "tree"
    /\ pc = "returned"
    /\ MultiLineChildren
    /\ Len(RootChildren) >= 2
    /\ \E a, b \in Range(RootChildren) :
           /\ Len(nodes[a].modified_lines) < nodes[a].end_line - nodes[a].start_line + 1
           /\ Len(nodes[b].modified_lines) > nodes[b].end_line - nodes[b].start_line + 1

\* The next child to splice sits on one line of the buffer and its assembled
\* output is empty.
EmptyInlineNext ==
    /\ pc = "assemble"
    /\ left > 0
    /\ nodes[RootChildren[left]].start_line = nodes[RootChildren[left]].end_line
    /\ nodes[RootChildren[left]].start_line < Len(buf)
    /\ AssembleNodes(nodes, RootChildren[left]) = [e |-> "", v |-> <<>>]

\* C9: splicing a child with start_line = end_line whose assembled output is
\* empty leaves the buffer as it was, line for line, and raises nothing.
C9_InlineEmptyKeepsLine ==
    [][EmptyInlineNext => (buf' = buf /\ Len(buf') = Len(buf) /\ pc' = "assemble")]_vars

\* Such a child has been spliced, and it is not the last line of the buffer.
C9_Witness ==
    /\ mode = "tree"
    /\ pc = "assemble"
    /\ left < Len(RootChildren)
    /\ nodes[RootChildren[left + 1]].start_line = nodes[RootChildren[left + 1]].end_line
    /\ nodes[RootChildren[left + 1]].modified_lines = <<>>
    /\ nodes[RootChildren[left + 1]].start_line + 1 < Len(buf)

\* C10: main opens a file for writing at most once, never while or before
\* format_link_file works on it and never after format_link_file raised; a
\* file not written keeps its content, a written file holds what
\* format_link_file returned after parse_file, process_nodes and
\* assemble_nodes were through.
C10_WriteOrdering ==
    \A f \in DOMAIN fs :
        /\ written[f] <= 1
        /\ written[f] = 0 => fs[f] = orig[f]
        /\ (f = fi /\ pc \in {"parse", "process", "assemble", "returned", "raised"})
               => written[f] = 0
        /\ written[f] = 1 =>
               /\ f = fi
               /\ pc \in {"loop", "exit"}
               /\ err = ""
               /\ fs[f] = out
               /\ pos = Len(doc)
               /\ Range(assigned) = 1..Len(nodes)
               /\ left = 0

\* main has written a file whose text the rewrite changed.
C10_Witness ==
    /\ pc = "exit"
    /\ fi = 1
    /\ written[1] = 1
    /\ fs[1] # orig[1]

\* C11: when main returns, format_link_file has been called for every
\* document of the batch, whatever happened to the documents before it.
C11_BatchIndependence ==
    pc = "exit" => run = Len(fs)

(***************************************************************************)
(* parse_file called directly, as in TestParse.                            *)
(***************************************************************************)
\* Lines with no marker, one marker and several markers.
ParseLines ==
    {<<Text("x")>>,
     <<Open("tab")>>,
     <<Close("tab")>>,
     <<Open("tabs")>>,
     <<Close("tabs")>>,
     <<Open("partial")>>,
     <<Open("tabs"), Open("tab")>>,
     <<Close("tab"), Close("tabs")>>,
     <<CloseNoSpace("tab")>>,
     <<Text("x"), Open("tab"), Text("y"), Close("tab")>>}

ParseDocs == SeqsUpTo(ParseLines, MaxParseLines)

InitParse ==
    /\ mode = "parse"
    /\ fs \in {<<d>> : d \in ParseDocs}
    /\ orig = fs
    /\ written = <<0>>
    /\ queue = <<>>
    /\ fi = 1
    /\ pc = "parse"
    /\ doc = fs[1]
    /\ pos = 0
    /\ nodes = <<Node("root")>>
    /\ cur = 1
    /\ nln = 0
    /\ todo = <<>>
    /\ warned = {}
    /\ assigned = <<>>
    /\ buf = <<>>
    /\ left = 0
    /\ out = <<>>
    /\ err = ""
    /\ run = 1
    /\ first = NoCall

NextParse ==
    \/ ParseLine
    \/ ParseEnd

SpecParse == InitParse /\ [][NextParse]_vars

\* C12: in the tree parse_file returns, the root and every node below it hold
\* at least one line, also the node created on a line with several open
\* markers; for a file without lines parse_file raises ValueError and no node
\* is rewritten.
C12_NonEmptyCapture ==
    (mode = "parse" /\ pc # "parse")
        => /\ pc = "process" => \A n \in 1..Len(nodes) : nodes[n].lines # <<>>
           /\ doc = <<>> => (pc = "raised" /\ err = "ValueError" /\ assigned = <<>>)
           /\ pc = "raised" => doc = <<>>

\* parse_file returned a tree with a node that was created on a line that
\* carries two open markers.
C12_Witness ==
    /\ mode = "parse"
    /\ pc = "process"
    /\ \E n \in 2..Len(nodes) :
           Cardinality(Positions(nodes[n].lines[1], {"open"})) >= 2

RECURSIVE PathToRoot(_)
\* The node n and the nodes above it.
PathToRoot(n) == IF n = 0 THEN {} ELSE {n} \cup PathToRoot(nodes[n].parent)

\* The nodes that were closed: parse_file has left them for their parent.
ClosedNodes == {c \in 2..Len(nodes) : c \notin PathToRoot(cur)}

\* C13: at the start of every line new_line_number is the number of lines
\* the current node holds; for every closed node c with parent p, line
\* c.start_line of p is the line that opened c; a node closed on a later line
\* has end_line = start_line + 1 and line end_line of p is its closing line;
\* a node closed on its opening line has end_line = start_line.
C13_PositionalInvariant ==
    mode = "parse"
        => /\ nln = Len(nodes[cur].lines)
           /\ \A c \in ClosedNodes :
                  LET n == nodes[c]
                      p == nodes[n.parent]
                  IN  /\ n.start_line < Len(p.lines)
                      /\ p.lines[n.start_line + 1] = n.lines[1]
                      /\ IF Len(n.lines) > 1
                         THEN /\ n.end_line = n.start_line + 1
                              /\ n.end_line < Len(p.lines)
                              /\ p.lines[n.end_line + 1] = n.lines[Len(n.lines)]
                         ELSE n.end_line = n.start_line

\* Below a node that is not the root, one node was closed on its opening line
\* and a later one on another line.
C13_Witness ==
    /\ mode = "parse"
    /\ pc = "process"
    /\ \E a, b \in ClosedNodes :
           /\ a < b
           /\ nodes[a].parent # 1
           /\ nodes[b].parent = nodes[a].parent
           /\ Len(nodes[a].lines) = 1
           /\ Len(nodes[b].lines) > 1

\* The next line of the file carries one close marker and no open marker,
\* and the marker does not close the current node: its name is another one,
\* or the current node is the root.
MismatchedCloseNext ==
    /\ mode = "parse"
    /\ pc = "parse"
    /\ pos < Len(doc)
    /\ Positions(doc[pos + 1], {"open"}) = {}
    /\ Cardinality(Positions(doc[pos + 1], {"close"})) = 1
    /\ \/ doc[pos + 1][CloseMatch(doc[pos + 1])].s # nodes[cur].name
       \/ nodes[cur].parent = 0

\* C14: a close marker that does not close the current node is ignored: the
\* line is captured by the current node like a line of text, and the current
\* node, new_line_number and the fields start_line, end_line, start and end
\* of every node stay what they would be without the marker.
C14_MismatchedCloseIgnored ==
    [][MismatchedCloseNext
           => /\ cur' = cur
              /\ nln' = nln + 1
              /\ nodes' = [nodes EXCEPT ![cur].lines = Append(@, doc[pos + 1])]]_vars

\* Every line of the document carries one marker or none.
OneMarkerPerLine(d) ==
    \A i \in 1..Len(d) : Cardinality(Positions(d[i], {"open", "close", "closens"})) <= 1

\* The tokens with every close marker in the form "{{< /name >}}".
OneCloseForm(toks) ==
    [i \in 1..Len(toks) |-> IF toks[i].k = "closens" THEN Close(toks[i].s) ELSE toks[i]]

\* The names of the regions of the text, in the order of their open markers.
RegionNames(toks) ==
    SelectSeq(toks, LAMBDA t : t.k = "open" /\ t.s \notin one_liner_tags)

RECURSIVE EnclosingRegions(_, _, _, _)
\* For a text of properly nested regions: for every region from token i on,
\* in the order of the open markers, the region that encloses it.  Regions
\* are numbered from 2 in the order of their open markers, 1 is the whole
\* document; `stack` holds the regions open at token i, innermost first, and
\* `made` is the number of the region opened last.
EnclosingRegions(toks, i, stack, made) ==
    IF i > Len(toks) THEN <<>>
    ELSE IF toks[i].k = "open" /\ toks[i].s \notin one_liner_tags
    THEN <<Head(stack)>> \o EnclosingRegions(toks, i + 1, <<made + 1>> \o stack, made + 1)
    ELSE IF toks[i].k = "close"
    THEN EnclosingRegions(toks, i + 1, Tail(stack), made)
    ELSE EnclosingRegions(toks, i + 1, stack, made)

\* C15: for a document of properly nested and closed regions, one marker on
\* a line, the tree parse_file returns has one node for every region; the
\* node's parent is the node of the enclosing region (the root for a region
\* of the top level), and the children of every node are the regions opened
\* directly inside it, in the order of the text, each in one list only: two
\* regions closed one after the other are two children of the root.
C15_TreeMirrorsNesting ==
    (/\ mode = "parse"
     /\ pc = "process"
     /\ OneMarkerPerLine(doc)
     /\ Nested(OneCloseForm(Flatten(doc, 1)), 1, <<>>))
        => LET toks == OneCloseForm(Flatten(doc, 1))
               enclosing == EnclosingRegions(toks, 1, <<1>>, 1)
           IN  /\ Len(nodes) = Len(enclosing) + 1
               /\ nodes[1].parent = 0
               /\ \A n \in 2..Len(nodes) :
                      /\ nodes[n].parent = enclosing[n - 1]
                      /\ nodes[n].name = RegionNames(toks)[n - 1].s
               /\ \A p \in 1..Len(nodes) :
                      nodes[p].children =
                          SortedSeq({n \in 2..Len(nodes) : enclosing[n - 1] = p})

(***************************************************************************)
(* process_nodes on the tree of a parsed document: a root of links, text   *)
(* and footer definitions, or the same lines inside a region.              *)
(***************************************************************************)
LinkLines ==
    {<<Text("x")>>,
     <<Ref(1)>>,
     <<Ref(2)>>,
     <<Ref(3)>>,
     <<Inline("http://b")>>,
     <<Def(1, "http://a")>>,
     <<Def(2, "http://b")>>,
     <<Def(3, "http://c")>>,
     <<Text("\f"), Def(2, "http://b")>>}

RewriteDocs ==
    LET bodies == SeqsUpTo(LinkLines, MaxNodeLines) \ {<<>>}
    IN  bodies \cup {<<<<Open("tab")>>>> \o d \o <<<<Close("tab")>>>> : d \in bodies}

RECURSIVE ParseFrom(_, _, _)
\* The loop of parse_file from line i of the file on.
ParseFrom(st, d, i) ==
    IF i > Len(d) THEN st ELSE ParseFrom(ParseLineStep(st, d[i]), d, i + 1)

\* parse_file on a file of the lines d: the state when the loop is over.
ParseFile(d) == ParseFrom([nodes |-> <<Node("root")>>, cur |-> 1, nln |-> 0], d, 1)

InitRewrite ==
    /\ mode = "rewrite"
    /\ fs \in {<<d>> : d \in RewriteDocs}
    /\ orig = fs
    /\ written = <<0>>
    /\ queue = <<>>
    /\ fi = 1
    /\ pc = "process"
    /\ doc = fs[1]
    /\ pos = Len(doc)
    /\ nodes = ParseFile(doc).nodes
    /\ cur = ParseFile(doc).cur
    /\ nln = ParseFile(doc).nln
    /\ todo = <<1>>
    /\ warned = {}
    /\ assigned = <<>>
    /\ buf = <<>>
    /\ left = 0
    /\ out = <<>>
    /\ err = ""
    /\ run = 1
    /\ first = NoCall

NextRewrite == ProcessNode

SpecRewrite == InitRewrite /\ [][NextRewrite]_vars

(***************************************************************************)
(* The methods of Node, called on the nodes of a parsed tree.  parse_file  *)
(* calls add and push_line; nothing in the repository calls pop_line.      *)
(***************************************************************************)
\* Node.add(child), for a child made with Node(name).
add(p, name) ==
    /\ pc = "node"
    /\ Len(nodes) < MaxChildren
    /\ nodes' = Append([nodes EXCEPT ![p].children = Append(@, Len(nodes) + 1)],
                       [Node(name) EXCEPT !.parent = p])
    /\ UNCHANGED <<mode, fs, orig, written, queue, fi, pc, doc, pos, cur, nln,
                   todo, warned, assigned, buf, left, out, err, run, first>>

\* Node.push_line(line)
push_line(n, line) ==
    /\ pc = "node"
    /\ Len(nodes[n].lines) < MaxLines
    /\ nodes' = [nodes EXCEPT ![n].lines = Append(@, line)]
    /\ UNCHANGED <<mode, fs, orig, written, queue, fi, pc, doc, pos, cur, nln,
                   todo, warned, assigned, buf, left, out, err, run, first>>

\* Node.pop_line(): the last line is removed and returned; list.pop() raises
\* IndexError on a node without lines.
pop_line(n) ==
    /\ pc = "node"
    /\ IF nodes[n].lines = <<>>
       THEN /\ pc' = "raised"
            /\ err' = "IndexError"
            /\ UNCHANGED <<nodes, out>>
       ELSE /\ nodes' = [nodes EXCEPT ![n].lines = SubSeq(@, 1, Len(@) - 1)]
            /\ out' = <<nodes[n].lines[Len(nodes[n].lines)]>>
            /\ UNCHANGED <<pc, err>>
    /\ UNCHANGED <<mode, fs, orig, written, queue, fi, doc, pos, cur, nln,
                   todo, warned, assigned, buf, left, run, first>>

\* The tree that parse_file returned for a short document.
InitNode ==
    /\ mode = "node"
    /\ fs \in {<<d>> : d \in SeqsUpTo({<<Text("x")>>, <<Open("tab")>>, <<Close("tab")>>}, MaxLines) \ {<<>>}}
    /\ orig = fs
    /\ written = <<0>>
    /\ queue = <<>>
    /\ fi = 1
    /\ pc = "node"
    /\ doc = fs[1]
    /\ pos = Len(doc)
    /\ nodes = ParseFile(doc).nodes
    /\ cur = ParseFile(doc).cur
    /\ nln = ParseFile(doc).nln
    /\ todo = <<>>
    /\ warned = {}
    /\ assigned = <<>>
    /\ buf = <<>>
    /\ left = 0
    /\ out = <<>>
    /\ err = ""
    /\ run = 1
    /\ first = NoCall

NextNode ==
    \/ \E p \in 1..Len(nodes) : add(p, "tab")
    \/ \E n \in 1..Len(nodes) : push_line(n, <<Text("x")>>)
    \/ \E n \in 1..Len(nodes) : pop_line(n)

SpecNode == InitNode /\ [][NextNode]_vars

\* The lines that are no footer definitions, in their order.
NonDefLines(lines) == SelectSeq(lines, LAMBDA l : ~IsDefLine(l))

\* Line b is line a with its links rewritten: the same tokens, but that a
\* link may have changed between "[t](url)" and "[t][i]" or changed its
\* index, and that a control character may have been deleted.
SameButLinks(a, b) ==
    /\ Len(a) = Len(b)
    /\ \A j \in 1..Len(a) :
           \/ a[j] = b[j]
           \/ a[j].k \in {"ref", "inline"} /\ b[j].k \in {"ref", "inline"}
           \/ a[j].k = "text" /\ a[j].s \in ControlChars /\ b[j] = Text("")

\* C16: when process_nodes has rewritten a node that is not ignored, every
\* line of the node that is no footer definition has its counterpart in
\* modified_lines, in the same order: only footer definitions were removed
\* or replaced, also when other lines stand between the definitions.
C16_OnlyDefinitionsReplaced ==
    \A n \in Range(assigned) :
        nodes[n].name \notin ignored_nodes
            => LET kept == NonDefLines(nodes[n].lines)
                   now == NonDefLines(nodes[n].modified_lines)
               IN  /\ Len(now) = Len(kept)
                   /\ \A i \in 1..Len(kept) : SameButLinks(kept[i], now[i])

\* The footer definitions among the lines, in their order.
DefinitionBlock(lines) == SelectSeq(lines, IsDefLine)

\* C17: when process_nodes has rewritten a node that is not ignored, the
\* footer definitions of modified_lines are the generated block and nothing
\* else: they stand on consecutive lines and define the indices 1, 2, ... in
\* this order, each index once, wherever the definitions of the node stood,
\* also on its first line.
C17_NoStaleDefinitions ==
    \A n \in Range(assigned) :
        nodes[n].name \notin ignored_nodes
            => LET now == nodes[n].modified_lines
                   block == DefinitionBlock(now)
               IN  /\ \A i, j \in DefLines(now) : \A h \in i..j : h \in DefLines(now)
                   /\ \A k \in 1..Len(block) : block[k][1].n = k

\* The indices the footer definitions of the lines define.
DefinedIndices(lines) == {DefOf(lines[j]).n : j \in DefLines(lines)}

\* The link that the footer definition of index i gives.
DefinedUrl(lines, i) == DefOf(lines[CHOOSE j \in DefLines(lines) : DefOf(lines[j]).n = i]).s

\* The lowest index that the lines define with the link u.
FirstIndex(lines, u) ==
    Min({i \in DefinedIndices(lines) : DefinedUrl(lines, i) = u})

\* The link a link token resolves to through the definitions of the lines,
\* "" when it has none: a reference without definition, a link to an anchor.
Resolved(lines, tok) ==
    IF tok.k = "ref" /\ tok.n \in DefinedIndices(lines) THEN DefinedUrl(lines, tok.n)
    ELSE IF tok.k = "inline" /\ tok.s \notin AnchorTargets THEN tok.s
    ELSE ""

\* The original indices that are reused: for every link that some link of
\* the lines resolves to and some definition gives, the lowest index defined
\* with it.
ReusedOriginal(lines) ==
    {FirstIndex(lines, u) :
        u \in {v \in {Resolved(lines, tok) : tok \in Tokens(lines)} :
                  \E i \in DefinedIndices(lines) : DefinedUrl(lines, i) = v}} \ {0}

\* The new index of the reused original index i: i is the k-th smallest.
NewIndex(lines, i) == Cardinality({j \in ReusedOriginal(lines) : j <= i})

\* The definition block the claim describes: indices 1..n, index k with the
\* link of the k-th smallest reused original index.
RenumberedBlock(lines) ==
    [k \in 1..Cardinality(ReusedOriginal(lines)) |->
        <<Def(k, DefinedUrl(lines,
                 CHOOSE i \in ReusedOriginal(lines) : NewIndex(lines, i) = k))>>]

\* The lines with every link that resolves to a link of the block written
\* as a reference with the new index of that link.
RenumberedLines(lines) ==
    [i \in 1..Len(lines) |->
        [j \in 1..Len(lines[i]) |->
            LET tok == lines[i][j]
                u == Resolved(lines, tok)
            IN  IF /\ \E h \in DefinedIndices(lines) : DefinedUrl(lines, h) = u
                   /\ FirstIndex(lines, u) \in ReusedOriginal(lines)
                THEN Ref(NewIndex(lines, FirstIndex(lines, u)))
                ELSE IF tok.k = "text" /\ tok.s \in ControlChars THEN Text("")
                ELSE tok]]

\* C18: when process_nodes has rewritten a node that is not ignored,
\* modified_lines holds the generated block with the indices 1..n in
\* ascending order, n the number of reused original indices and index k
\* given to the link of the k-th smallest of them, and outside the block
\* every link rewritten as a reference carries the new index of its link.
C18_Renumbering ==
    \A n \in Range(assigned) :
        nodes[n].name \notin ignored_nodes
            => LET lines == nodes[n].lines
                   want == RenumberedLines(lines)
                   block == RenumberedBlock(lines)
               IN  \E a, b \in 0..Len(want) :
                       /\ a <= b
                       /\ nodes[n].modified_lines =
                              SubSeq(want, 1, a) \o block \o SubSeq(want, b + 1, Len(want))

\* A node defines and uses the indices 1 and 3 and not 2; it was rewritten
\* and its block gives index 2 to the link of the old index 3.
C18_Witness ==
    /\ mode = "rewrite"
    /\ \E n \in Range(assigned) :
           /\ DefinedIndices(nodes[n].lines) = {1, 3}
           /\ {Ref(1), Ref(3)} \subseteq Tokens(nodes[n].lines)
           /\ \E i \in 1..Len(nodes[n].modified_lines) :
                  nodes[n].modified_lines[i] = <<Def(2, "http://c")>>

\* process_nodes(root) has returned: every call of the walk is over.
WalkOver ==
    \/ pc = "process" /\ todo = <<>>
    \/ pc \in {"assemble", "returned"}
    \/ pc = "raised" /\ err \in {"TypeError", "IndexError"}

TargetsIn(lines, tok) ==
    IF tok.k = "inline" THEN {tok.s}
    ELSE IF tok.k = "ref"
    THEN {DefOf(lines[j]).s : j \in {h \in DefLines(lines) : DefOf(lines[h]).n = tok.n}}
    ELSE {}

\* The footer definitions of the lines stand on consecutive lines, none of
\* them on the first line.
DefinitionsInOneRun(lines) ==
    /\ 1 \notin DefLines(lines)
    /\ \A i, j \in DefLines(lines) : \A h \in i..j : h \in DefLines(lines)

\* C20: when process_nodes has rewritten a node that is not ignored, every
\* link of the node resolves within modified_lines to the link it resolved
\* to within lines, and a reference that had no definition in the node has
\* none in modified_lines.  Stated for the nodes whose definitions stand on
\* consecutive lines after the first line, whose other lines all have their
\* counterpart in modified_lines.
C20_TargetsPreserved ==
    \A n \in Range(assigned) :
        (nodes[n].name \notin ignored_nodes /\ DefinitionsInOneRun(nodes[n].lines))
            => LET lines == nodes[n].lines
                   now == nodes[n].modified_lines
                   kept == NonDefLines(lines)
                   rewritten == NonDefLines(now)
               IN  /\ Len(rewritten) = Len(kept)
                   /\ \A i \in 1..Len(kept) :
                          /\ Len(rewritten[i]) = Len(kept[i])
                          /\ \A j \in 1..Len(kept[i]) :
                                 TargetsIn(now, rewritten[i][j]) = TargetsIn(lines, kept[i][j])

\* C21: once process_nodes has rewritten a node p, the lines at indices
\* start_line and end_line of every closed child of p are, in
\* p.modified_lines, the rewritten counterparts of the lines that opened and
\* closed the child in p.lines: rebuilding the definition block of p has not
\* moved them, also when the definitions of p stand before the child. (The
\* lines of the child that are footer definitions of p themselves are left
\* aside.)
C21_ChildAnchorsSurvive ==
    \A p \in Range(assigned) :
        \A j \in 1..Len(nodes[p].children) :
            LET c == nodes[nodes[p].children[j]]
                lines == nodes[p].lines
                now == nodes[p].modified_lines
            IN  (/\ nodes[p].children[j] \in ClosedNodes
                 /\ ~IsDefLine(lines[c.start_line + 1])
                 /\ ~IsDefLine(lines[c.end_line + 1]))
                    => /\ c.end_line < Len(now)
                       /\ SameButLinks(lines[c.start_line + 1], now[c.start_line + 1])
                       /\ SameButLinks(lines[c.end_line + 1], now[c.end_line + 1])

\* A region was opened and left open at the end of the file.
UnclosedRegion == cur > 1

\* C22: format_link_file on a document with a region that is never closed
\* returns, unless a scope defines an index twice; and for a document
\* without links it returns the lines of the document, each one once and in
\* the order of the document.
C22_UnclosedRegionFaithful ==
    (mode = "file" /\ Ended /\ UnclosedRegion)
        => /\ DuplicateScopes = {} => pc = "returned"
           /\ PlainDocument(doc) => (pc = "returned" /\ out = doc)

====
